---- MODULE Spec2Model ----
(***************************************************************************)
(* Model of custom_components/api_v2/__init__.py: the REST views of the    *)
(* api_v2 component and the handlers of APIEntityStateView (GET, POST and  *)
(* DELETE on one entity's state), run on the host's single-threaded event  *)
(* loop.  The host's state machine (hass.states) is a dictionary keyed by  *)
(* entity_id.                                                              *)
(***************************************************************************)
EXTENDS Naturals, Sequences, FiniteSets, TLC

(* ------------------------------ bounds --------------------------------- *)

\* number of POST requests that may be suspended in `await request.json()`
MaxSuspended == 2

Slots == 1..MaxSuspended

Entities == {"sensor.kitchen", "light.hall"}

(* ---------------------------- identities ------------------------------- *)

POLICY_READ == "read"

\* request["hass_user"]: an administrator, and a user that is not one and
\* may read sensor.kitchen only
Users ==
  { [name |-> "admin", is_admin |-> TRUE,  readable |-> Entities],
    [name |-> "guest", is_admin |-> FALSE, readable |-> {"sensor.kitchen"}] }

check_entity(user, entity_id, policy) ==
  policy = POLICY_READ /\ entity_id \in user.readable

\* self.context(request): the context of a write names the requesting user
context(user) == user.name

(* --------------------------- request bodies ---------------------------- *)

None == "None"

Dict(state, attributes, force_update) ==
  [type |-> "object", state |-> state, attributes |-> attributes,
   force_update |-> force_update]

\* a key that the object does not hold
Missing == "<missing>"

\* the bytes of a request body: text that is no JSON, or the text of a JSON
\* value (an array, or an object with some of the keys state, attributes and
\* force_update; JSON null is None once parsed)
Bodies ==
  { [kind |-> "text"],
    [kind |-> "json", value |-> [type |-> "array"]],
    [kind |-> "json", value |-> Dict(Missing, Missing, Missing)],
    [kind |-> "json", value |-> Dict(None, Missing, Missing)],
    [kind |-> "json", value |-> Dict("on", Missing, Missing)],
    [kind |-> "json", value |-> Dict("off", "{unit: C}", "true")] }

\* the body of a request whose handler reads none
NoBody == [kind |-> "empty"]

\* await request.json(): the parsed value, or ValueError
request_json(body) ==
  IF body.kind = "json"
    THEN [raised |-> "none", value |-> body.value]
    ELSE [raised |-> "ValueError"]

\* data.get(key, default) on a dict
DictGet(data, key, default) ==
  IF data[key] = Missing THEN default ELSE data[key]

(* ------------------------------ the store ------------------------------ *)

NoState == [kind |-> "None"]

State(entity_id, state, attributes, ctx) ==
  [kind |-> "State", entity_id |-> entity_id, state |-> state,
   attributes |-> attributes, context |-> ctx]

\* hass.states.get(entity_id)
states_get(st, entity_id) ==
  IF entity_id \in DOMAIN st THEN st[entity_id] ELSE NoState

\* hass.states.async_set(entity_id, new_state, attributes, force_update, context)
states_async_set(st, entity_id, new_state, attributes, force_update, ctx) ==
  [x \in DOMAIN st \cup {entity_id} |->
     IF x = entity_id THEN State(entity_id, new_state, attributes, ctx)
                      ELSE st[x]]

\* hass.states.async_remove(entity_id): whether a record was removed, and
\* the store afterwards
states_async_remove(st, entity_id) ==
  [removed |-> entity_id \in DOMAIN st,
   store |-> [x \in DOMAIN st \ {entity_id} |-> st[x]]]

(* ------------------------------ responses ------------------------------ *)

OK == 200
CREATED == 201
BAD_REQUEST == 400
NOT_FOUND == 404

\* self.json(result, status_code)
json(result, status_code) ==
  [raised |-> "none", status |-> status_code, body |-> result, headers |-> {}]

\* self.json_message(message, status_code)
json_message(message, status_code) ==
  json([kind |-> "message", message |-> message], status_code)

\* raise Unauthorized(entity_id=entity_id)
Unauthorized(entity_id) == [raised |-> "Unauthorized", entity_id |-> entity_id]

\* data.get on a parsed value that is no dict
AttributeError == [raised |-> "AttributeError"]

\* APIEntityStateView.url for one entity
url(entity_id) == <<"/api_v2/states/", entity_id>>

\* the Location of a written entity under the view's own prefix
Location_own_prefix(entity_id) == url(entity_id)

\* f"/api/states/{entity_id}"
Location(entity_id) == <<"/api/states/", entity_id>>

Outcome(resp, st, calls) == [resp |-> resp, store |-> st, calls |-> calls]

(* ------------------------------ handlers ------------------------------- *)

\* APIEntityStateView.get with the test of the record inverted
get_inverted(st, user, entity_id) ==
  IF ~check_entity(user, entity_id, POLICY_READ)
    THEN Outcome(Unauthorized(entity_id), st, <<>>)
    ELSE LET state == states_get(st, entity_id) IN
         IF state = NoState
           THEN Outcome(json(state, OK), st, <<"get">>)
           ELSE Outcome(json_message("Entity not found.", NOT_FOUND), st, <<"get">>)

\* APIEntityStateView.get
get(st, user, entity_id) ==
  IF ~check_entity(user, entity_id, POLICY_READ)
    THEN Outcome(Unauthorized(entity_id), st, <<>>)
    ELSE LET state == states_get(st, entity_id) IN
         IF state # NoState
           THEN Outcome(json(state, OK), st, <<"get">>)
           ELSE Outcome(json_message("Entity not found.", NOT_FOUND), st, <<"get">>)

\* APIEntityStateView.delete with the result of async_remove inverted
delete_inverted(st, user, entity_id) ==
  IF ~user.is_admin
    THEN Outcome(Unauthorized(entity_id), st, <<>>)
    ELSE LET rm == states_async_remove(st, entity_id) IN
         IF ~rm.removed
           THEN Outcome(json_message("Entity removed.", OK), rm.store, <<"remove">>)
           ELSE Outcome(json_message("Entity not found.", NOT_FOUND), rm.store, <<"remove">>)

\* APIEntityStateView.delete without the administrator check
delete_unchecked(st, user, entity_id) ==
  LET rm == states_async_remove(st, entity_id) IN
  IF rm.removed
    THEN Outcome(json_message("Entity removed.", OK), rm.store, <<"remove">>)
    ELSE Outcome(json_message("Entity not found.", NOT_FOUND), rm.store, <<"remove">>)

\* APIEntityStateView.delete
delete(st, user, entity_id) ==
  IF ~user.is_admin
    THEN Outcome(Unauthorized(entity_id), st, <<>>)
    ELSE LET rm == states_async_remove(st, entity_id) IN
         IF rm.removed
           THEN Outcome(json_message("Entity removed.", OK), rm.store, <<"remove">>)
           ELSE Outcome(json_message("Entity not found.", NOT_FOUND), rm.store, <<"remove">>)

\* the status code with the two cases swapped
status_code_swapped(is_new_state) == IF is_new_state THEN OK ELSE CREATED

\* status_code = HTTPStatus.CREATED if is_new_state else HTTPStatus.OK
status_code(is_new_state) == IF is_new_state THEN CREATED ELSE OK

\* the response of a POST that wrote: the record read back, with Location
post_response(st, entity_id, is_new_state) ==
  [json(states_get(st, entity_id), status_code(is_new_state))
     EXCEPT !.headers = @ \cup {<<"Location", Location(entity_id)>>}]

\* APIEntityStateView.post from `if (new_state := data.get("state")) is None`
\* on, written before the state is validated
post_parsed_write_first(st, user, entity_id, data) ==
  IF data.type # "object"
    THEN Outcome(AttributeError, st, <<>>)
    ELSE
  LET new_state    == DictGet(data, "state", None)
      attributes   == DictGet(data, "attributes", None)
      force_update == DictGet(data, "force_update", "false")
      is_new_state == states_get(st, entity_id) = NoState
      written      == states_async_set(st, entity_id, new_state, attributes,
                                       force_update, context(user))
  IN IF new_state = None
       THEN Outcome(json_message("No state specified.", BAD_REQUEST), written,
                    <<"get", "set">>)
       ELSE Outcome(post_response(written, entity_id, is_new_state), written,
                    <<"get", "set", "get">>)

\* APIEntityStateView.post from `if (new_state := data.get("state")) is None` on
post_parsed(st, user, entity_id, data) ==
  IF data.type # "object"
    THEN Outcome(AttributeError, st, <<>>)
    ELSE
  LET new_state == DictGet(data, "state", None) IN
  IF new_state = None
    THEN Outcome(json_message("No state specified.", BAD_REQUEST), st, <<>>)
    ELSE
  LET attributes   == DictGet(data, "attributes", None)
      force_update == DictGet(data, "force_update", "false")
      is_new_state == states_get(st, entity_id) = NoState
      written      == states_async_set(st, entity_id, new_state, attributes,
                                       force_update, context(user))
  IN Outcome(post_response(written, entity_id, is_new_state), written,
             <<"get", "set", "get">>)

\* APIEntityStateView.post from the return of `await request.json()` on, with
\* the ValueError of the parse left uncaught
post_resume_uncaught(st, user, entity_id, body) ==
  LET parsed == request_json(body) IN
  IF parsed.raised = "ValueError"
    THEN Outcome([raised |-> "ValueError"], st, <<>>)
    ELSE post_parsed(st, user, entity_id, parsed.value)

\* APIEntityStateView.post from the return of `await request.json()` on
post_resume(st, user, entity_id, body) ==
  LET parsed == request_json(body) IN
  IF parsed.raised = "ValueError"
    THEN Outcome(json_message("Invalid JSON specified.", BAD_REQUEST), st, <<>>)
    ELSE post_parsed(st, user, entity_id, parsed.value)

(* ------------------------------- state --------------------------------- *)

VARIABLES
  hass_data,    \* the keys of hass.data
  registered,   \* names of the views registered with hass.http
  setup_done,   \* async_setup has returned True
  store,        \* hass.states: entity_id -> State
  req,          \* per slot: a POST suspended in `await request.json()`
  last          \* the handler call that finished last, with its outcome

vars == <<hass_data, registered, setup_done, store, req, last>>

DATA_LOGGING == "logging"

Idle == [pc |-> "idle"]

Init ==
  /\ hass_data \in SUBSET {DATA_LOGGING}
  /\ registered = {}
  /\ setup_done = FALSE
  /\ store = <<>>
  /\ req = [r \in Slots |-> Idle]
  /\ last = [method |-> "NONE"]

\* async_setup
async_setup ==
  /\ ~setup_done
  /\ registered' = {"apiv2:status", "apiv2:states"}
                     \cup (IF DATA_LOGGING \in hass_data THEN {"api:error_log"} ELSE {})
  /\ setup_done' = TRUE
  /\ UNCHANGED <<hass_data, store, req, last>>

Finished(method, entity_id, user, body, out, fresh, overtaken) ==
  [method |-> method, entity_id |-> entity_id, user |-> user, body |-> body,
   resp |-> out.resp, calls |-> out.calls, fresh |-> fresh, overtaken |-> overtaken]

\* a record of entity_id was removed: the POSTs suspended on it no longer
\* run on an entity that has been absent since they began
AfterRemove(rq, entity_id) ==
  [r \in Slots |->
     IF rq[r].pc # "idle" /\ rq[r].entity_id = entity_id
       THEN [rq[r] EXCEPT !.fresh = FALSE, !.overtaken = FALSE]
       ELSE rq[r]]

\* a record of entity_id was written by the POST of slot `by`
AfterWrite(rq, entity_id, by) ==
  [r \in Slots |->
     IF r # by /\ rq[r].pc # "idle" /\ rq[r].entity_id = entity_id /\ rq[r].fresh
       THEN [rq[r] EXCEPT !.overtaken = TRUE]
       ELSE rq[r]]

\* GET /api_v2/states/{entity_id}
Get(entity_id, user) ==
  /\ setup_done
  /\ LET out == get(store, user, entity_id) IN
       /\ store' = out.store
       /\ last' = Finished("GET", entity_id, user, NoBody, out, FALSE, FALSE)
  /\ UNCHANGED <<hass_data, registered, setup_done, req>>

\* DELETE /api_v2/states/{entity_id}
Delete(entity_id, user) ==
  /\ setup_done
  /\ LET out == delete(store, user, entity_id) IN
       /\ store' = out.store
       /\ last' = Finished("DELETE", entity_id, user, NoBody, out, FALSE, FALSE)
       /\ req' = IF entity_id \in DOMAIN store /\ entity_id \notin DOMAIN out.store
                   THEN AfterRemove(req, entity_id) ELSE req
  /\ UNCHANGED <<hass_data, registered, setup_done>>

\* POST /api_v2/states/{entity_id} by a user who is no administrator
PostUnauthorized(entity_id, user, body) ==
  /\ setup_done
  /\ ~user.is_admin
  /\ last' = Finished("POST", entity_id, user, body,
                      Outcome(Unauthorized(entity_id), store, <<>>), FALSE, FALSE)
  /\ UNCHANGED <<hass_data, registered, setup_done, store, req>>

\* POST /api_v2/states/{entity_id} by an administrator, up to the
\* suspension in `await request.json()`
PostBegin(r, entity_id, user) ==
  /\ setup_done
  /\ user.is_admin
  /\ req[r].pc = "idle"
  /\ req' = [req EXCEPT ![r] = [pc |-> "parse", entity_id |-> entity_id,
                                user |-> user,
                                fresh |-> entity_id \notin DOMAIN store,
                                overtaken |-> FALSE]]
  /\ UNCHANGED <<hass_data, registered, setup_done, store, last>>

\* the same POST with a second suspension between the existence check and
\* the write: the first step parses, validates and checks, the second writes
\* and responds
PostResumeSplit(r, body) ==
  /\ req[r].pc \in {"parse", "write"}
  /\ LET e    == req[r].entity_id
         user == req[r].user
     IN
     IF req[r].pc = "parse"
       THEN LET out == post_resume(store, user, e, body) IN
            IF out.calls = <<>>
              THEN /\ store' = out.store
                   /\ last' = Finished("POST", e, user, body, out,
                                       req[r].fresh, req[r].overtaken)
                   /\ req' = [req EXCEPT ![r] = Idle]
              ELSE /\ req' = [req EXCEPT ![r] =
                                [pc |-> "write", entity_id |-> e, user |-> user,
                                 fresh |-> req[r].fresh,
                                 overtaken |-> req[r].overtaken,
                                 body |-> body,
                                 is_new_state |-> states_get(store, e) = NoState]]
                   /\ UNCHANGED <<store, last>>
       ELSE LET data    == req[r].body.value
                written == states_async_set(store, e, DictGet(data, "state", None),
                                            DictGet(data, "attributes", None),
                                            DictGet(data, "force_update", "false"),
                                            context(user))
                out     == Outcome(post_response(written, e, req[r].is_new_state),
                                   written, <<"get", "set", "get">>)
            IN /\ store' = written
               /\ last' = Finished("POST", e, user, req[r].body, out,
                                   req[r].fresh, req[r].overtaken)
               /\ req' = [AfterWrite(req, e, r) EXCEPT ![r] = Idle]
  /\ UNCHANGED <<hass_data, registered, setup_done>>

\* the same POST from the return of `await request.json()` to its response
PostResume(r, body) ==
  /\ req[r].pc = "parse"
  /\ LET e   == req[r].entity_id
         out == post_resume(store, req[r].user, e, body)
     IN /\ store' = out.store
        /\ last' = Finished("POST", e, req[r].user, body, out,
                            req[r].fresh, req[r].overtaken)
        /\ req' = [(IF out.calls # <<>> THEN AfterWrite(req, e, r) ELSE req)
                   EXCEPT ![r] = Idle]
  /\ UNCHANGED <<hass_data, registered, setup_done>>

Next ==
  \/ async_setup
  \/ \E e \in Entities, u \in Users : Get(e, u)
  \/ \E e \in Entities, u \in Users : Delete(e, u)
  \/ \E e \in Entities, u \in Users, b \in Bodies : PostUnauthorized(e, u, b)
  \/ \E r \in Slots, e \in Entities, u \in Users : PostBegin(r, e, u)
  \/ \E r \in Slots, b \in Bodies : PostResume(r, b)

Spec == Init /\ [][Next]_vars

(* --------------------------- vocabulary -------------------------------- *)

Returned(x, code) ==
  x.method # "NONE" /\ x.resp.raised = "none" /\ x.resp.status = code

Says(x, message) == x.resp.body = [kind |-> "message", message |-> message]

Succeeded(x) == Returned(x, OK) \/ Returned(x, CREATED)

Denied(x, method, entity_id) ==
  /\ x.method = method
  /\ x.resp = Unauthorized(entity_id)
  /\ x.calls = <<>>

\* the POST of slot r finishes in this step
Completes(r) == req[r].pc # "idle" /\ req'[r].pc = "idle"

IsObject(body) == body.kind = "json" /\ body.value.type = "object"

\* bodies that are a JSON object with a non-null state
ValidBodies == {b \in Bodies : IsObject(b) /\ b.value.state \notin {Missing, None}}

\* bodies that are not valid JSON
InvalidBodies == {b \in Bodies : b.kind # "json"}

\* bodies that parse as JSON and hold no state key, or a null state
NoStateBodies == {b \in Bodies : b.kind = "json" /\ b \notin ValidBodies}

Readers(entity_id) == {u \in Users : check_entity(u, entity_id, POLICY_READ)}

SetCalls(calls) == Cardinality({i \in DOMAIN calls : calls[i] = "set"})

(* ------------------------------ claims --------------------------------- *)

\* C1: an administrator's POST whose body is a JSON object with a non-null
\* state returns 201 exactly when the store held no record of the entity just
\* before the write and 200 otherwise; afterwards the store holds a record of
\* the entity with the posted state, and the GET that follows on the entity
\* returns 200 with the posted state.
C1_PostCreatesOrUpdates ==
  [][ /\ \A r \in Slots :
           (Completes(r) /\ last'.body \in ValidBodies) =>
             LET e == req[r].entity_id IN
             /\ last'.method = "POST" /\ last'.entity_id = e
             /\ Returned(last', IF e \in DOMAIN store THEN OK ELSE CREATED)
             /\ e \in DOMAIN store'
             /\ store'[e].state = last'.body.value.state
      /\ \A e \in Entities, u \in Users :
           ( /\ last.method = "POST" /\ Succeeded(last) /\ last.entity_id = e
             /\ u \in Readers(e)
             /\ Get(e, u) ) =>
             /\ Returned(last', OK)
             /\ last'.resp.body.kind = "State"
             /\ last'.resp.body.state = last.body.value.state
    ]_vars

C1_Witness ==
  /\ last.method = "GET" /\ Returned(last, OK)
  /\ last.resp.body.state = "off"
  /\ \E r \in Slots : req[r].pc = "parse" /\ req[r].entity_id = last.entity_id

\* C2: an administrator's DELETE returns 200 "Entity removed." and removes the
\* record when the store holds one, so that the GET that follows returns 404;
\* it returns 404 "Entity not found." and leaves the store unchanged when the
\* store holds none.
C2_DeleteRemovesOrReportsAbsent ==
  [][ \A e \in Entities, u \in Users :
        /\ (u.is_admin /\ Delete(e, u)) =>
             /\ last'.method = "DELETE" /\ last'.entity_id = e
             /\ IF e \in DOMAIN store
                  THEN /\ Returned(last', OK) /\ Says(last', "Entity removed.")
                       /\ e \notin DOMAIN store'
                  ELSE /\ Returned(last', NOT_FOUND) /\ Says(last', "Entity not found.")
                       /\ store' = store
        /\ ( /\ last.method = "DELETE" /\ Returned(last, OK) /\ last.entity_id = e
             /\ u \in Readers(e)
             /\ Get(e, u) ) =>
             Returned(last', NOT_FOUND) /\ Says(last', "Entity not found.")
    ]_vars

C2_Witness ==
  /\ last.method = "DELETE" /\ Returned(last, OK) /\ Says(last, "Entity removed.")
  /\ last.entity_id \notin DOMAIN store
  /\ DOMAIN store # {}

\* C3: a GET by an identity that may not read the entity, and a POST or DELETE
\* by an identity that is no administrator, calls no operation of the store,
\* ends in Unauthorized carrying the entity_id and leaves the store as it was,
\* whether or not the entity has a record and whatever the body is.
C3_UnauthorizedNeverReachesStore ==
  [][ \A e \in Entities, u \in Users :
        /\ (u \notin Readers(e) /\ Get(e, u)) =>
             Denied(last', "GET", e) /\ store' = store
        /\ (~u.is_admin /\ Delete(e, u)) =>
             Denied(last', "DELETE", e) /\ store' = store
        /\ \A b \in Bodies :
             (~u.is_admin /\ PostUnauthorized(e, u, b)) =>
               Denied(last', "POST", e) /\ last'.body = b /\ store' = store
        /\ \A r \in Slots : ~u.is_admin => ~PostBegin(r, e, u)
    ]_vars

C3_Witness ==
  /\ last.method = "DELETE"
  /\ Denied(last, "DELETE", last.entity_id)
  /\ last.entity_id \in DOMAIN store

\* C4 as stated: a POST whose body is not valid JSON returns 400
\* "Invalid JSON specified." for every entity and every identity.
C4_InvalidJsonIs400ForEveryone ==
  [][ \A b \in InvalidBodies :
        /\ \A e \in Entities, u \in Users :
             PostUnauthorized(e, u, b) =>
               Returned(last', BAD_REQUEST) /\ Says(last', "Invalid JSON specified.")
        /\ \A r \in Slots :
             (Completes(r) /\ last'.body = b) =>
               Returned(last', BAD_REQUEST) /\ Says(last', "Invalid JSON specified.")
    ]_vars

\* C4 amended: a POST by an administrator whose body is not valid JSON returns
\* 400 "Invalid JSON specified." for every entity.
C4_InvalidJsonIs400ForAdmin ==
  [][ \A r \in Slots :
        (Completes(r) /\ last'.body \in InvalidBodies) =>
          /\ last'.method = "POST" /\ last'.user.is_admin
          /\ last'.entity_id = req[r].entity_id
          /\ Returned(last', BAD_REQUEST) /\ Says(last', "Invalid JSON specified.")
    ]_vars

C4_Witness ==
  /\ last.method = "POST" /\ last.user.is_admin
  /\ last.body \in InvalidBodies
  /\ Returned(last, BAD_REQUEST)
  /\ last.entity_id \in DOMAIN store

\* C5: a POST whose body parses as JSON, whatever the value, and holds no
\* state key or a null state returns 400 "No state specified."; it never ends
\* in an exception.
C5_NoStateIs400 ==
  [][ \A r \in Slots :
        (Completes(r) /\ last'.body \in NoStateBodies) =>
          Returned(last', BAD_REQUEST) /\ Says(last', "No state specified.")
    ]_vars

\* C6: once async_setup has returned, the status view, the bulk state view
\* and the per-entity state view are registered, and the error-log view is
\* registered exactly when the logging key is in hass.data.
C6_SetupRegistersEveryView ==
  setup_done =>
    /\ {"apiv2:status", "apiv2:states", "apiv2:entity-state"} \subseteq registered
    /\ ("api:error_log" \in registered) <=> (DATA_LOGGING \in hass_data)

\* C7: a GET by an identity that may read the entity returns 200 with the
\* stored record when there is one and 404 "Entity not found." when there is
\* none, and leaves every record of the store as it was.
C7_GetIsPureRead ==
  [][ \A e \in Entities, u \in Users :
        (u \in Readers(e) /\ Get(e, u)) =>
          /\ last'.method = "GET" /\ last'.entity_id = e
          /\ IF e \in DOMAIN store
               THEN Returned(last', OK) /\ last'.resp.body = store[e]
               ELSE Returned(last', NOT_FOUND) /\ Says(last', "Entity not found.")
          /\ store' = store
    ]_vars

C7_Witness ==
  /\ last.method = "GET" /\ Returned(last, OK)
  /\ last.resp.body = store[last.entity_id]
  /\ DOMAIN store = Entities

\* C8: a POST response with status 200 or 201 carries a Location header with
\* the path /api/states/{entity_id} of the request's entity, which is not the
\* view's own /api_v2 path; a response with status 400 carries no Location.
C8_LocationIsCanonical ==
  (last.method = "POST" /\ last.resp.raised = "none") =>
    /\ Succeeded(last) =>
         /\ {h \in last.resp.headers : h[1] = "Location"}
              = {<<"Location", <<"/api/states/", last.entity_id>>>>}
         /\ <<"Location", url(last.entity_id)>> \notin last.resp.headers
    /\ Returned(last, BAD_REQUEST) =>
         {h \in last.resp.headers : h[1] = "Location"} = {}

C8_Witness ==
  /\ last.method = "POST" /\ Returned(last, CREATED)
  /\ <<"Location", <<"/api/states/", last.entity_id>>>> \in last.resp.headers

\* C9: under every interleaving of requests, with a POST suspended only in
\* its body parse, the existence check, write and read-back of a POST are one
\* step (get, set, get, with no other store call between): the record in its
\* response is the one it wrote, its status is 201 exactly when the store
\* held no record at the write, the write touches no other entity, and a POST
\* begun on an absent entity with no DELETE since returns 201 exactly when no
\* POST to the entity finished while it was suspended.
C9_PostWriteIsAtomic ==
  [][ \A r \in Slots :
        (Completes(r) /\ Succeeded(last')) =>
             LET e == req[r].entity_id
                 data == last'.body.value
             IN
             /\ last'.calls = <<"get", "set", "get">>
             /\ last'.resp.body = State(e, data.state,
                                        DictGet(data, "attributes", None),
                                        context(req[r].user))
             /\ store'[e] = last'.resp.body
             /\ (last'.resp.status = CREATED) <=> (e \notin DOMAIN store)
             /\ \A x \in DOMAIN store \ {e} :
                   x \in DOMAIN store' /\ store'[x] = store[x]
             /\ req[r].fresh =>
                  ((last'.resp.status = CREATED) <=> ~req[r].overtaken)
    ]_vars

C9_Witness ==
  /\ last.method = "POST" /\ Returned(last, OK)
  /\ last.fresh /\ last.overtaken
  /\ last.resp.body = store[last.entity_id]

\* C10: a POST that ends with 400 has not called the store's set and leaves
\* the store as it was, also when the entity has a record; a POST calls set
\* at most once, and only when it returns 200 or 201.
C10_ValidationPrecedesWrite ==
  [][ /\ \A r \in Slots :
           Completes(r) =>
             /\ Returned(last', BAD_REQUEST) =>
                  SetCalls(last'.calls) = 0 /\ store' = store
             /\ SetCalls(last'.calls) <= 1
             /\ SetCalls(last'.calls) = 1 => Succeeded(last')
             /\ store' # store => SetCalls(last'.calls) = 1
      /\ \A r \in Slots :
           (req[r].pc = "idle" /\ req'[r].pc # "idle") => store' = store
    ]_vars

C10_Witness ==
  /\ last.method = "POST" /\ Returned(last, BAD_REQUEST)
  /\ Says(last, "No state specified.")
  /\ last.entity_id \in DOMAIN store
  /\ SetCalls(last.calls) = 0

====
